---- MODULE Spec2Model ----
(***************************************************************************)
(* Model of src/app.py: the Crossref search form (index), the Crossref     *)
(* client and normalizer (fetch_crossref_results), the CSV download        *)
(* (download_csv) and the process-wide cache (_latest_results_df,          *)
(* _latest_query).                                                         *)
(*                                                                         *)
(* Text is modelled as a sequence of one-character strings, so that        *)
(* str.strip(), int() and str.join() are computed and not assumed.         *)
(* Opaque JSON scalars (a title, a DOI, a year) are TLA+ strings; the      *)
(* JSON null is the string Null and a missing key is the string Absent.    *)
(***************************************************************************)
EXTENDS Integers, Sequences, FiniteSets, TLC

\* ---------------------------------------------------------------- bounds
NumProcs == 2
MaxKeywordLen == 2
MaxRowsLen == 3
MaxItems == 2
MaxAuthors == 1
MaxDateParts == 2

Procs == 1..NumProcs

\* ------------------------------------------------------------- text
Whitespace == {" "}

RECURSIVE SeqsUpTo(_, _)
SeqsUpTo(S, n) ==
    IF n = 0 THEN {<<>>}
    ELSE LET shorter == SeqsUpTo(S, n - 1)
         IN  shorter \cup {Append(s, c) : s \in {t \in shorter : Len(t) = n - 1}, c \in S}

RECURSIVE lstrip(_)
lstrip(s) ==
    IF s # <<>> /\ Head(s) \in Whitespace THEN lstrip(Tail(s)) ELSE s

RECURSIVE rstrip(_)
rstrip(s) ==
    IF s # <<>> /\ s[Len(s)] \in Whitespace
    THEN rstrip(SubSeq(s, 1, Len(s) - 1))
    ELSE s

\* str.strip()
strip(s) == rstrip(lstrip(s))

\* sep.join(parts), parts a sequence of texts
RECURSIVE join(_, _)
join(sep, parts) ==
    IF parts = <<>> THEN <<>>
    ELSE IF Len(parts) = 1 THEN parts[1]
    ELSE parts[1] \o sep \o join(sep, Tail(parts))

\* [x for x in parts if x]
RECURSIVE nonempty_parts(_)
nonempty_parts(parts) ==
    IF parts = <<>> THEN <<>>
    ELSE IF Head(parts) = <<>> THEN nonempty_parts(Tail(parts))
    ELSE <<Head(parts)>> \o nonempty_parts(Tail(parts))

\* ------------------------------------------------------------- int()
DigitChars == {"0", "1", "2", "3", "4", "5", "6", "7", "8", "9"}

DigitVal(c) ==
    CASE c = "0" -> 0 [] c = "1" -> 1 [] c = "2" -> 2 [] c = "3" -> 3
      [] c = "4" -> 4 [] c = "5" -> 5 [] c = "6" -> 6 [] c = "7" -> 7
      [] c = "8" -> 8 [] c = "9" -> 9

\* the digits of an integer literal: digits, single underscores between them
int_literal_ok(b) ==
    /\ b # <<>>
    /\ b[1] \in DigitChars
    /\ b[Len(b)] \in DigitChars
    /\ \A i \in 1..Len(b) : b[i] \in DigitChars \cup {"_"}
    /\ \A i \in 1..(Len(b) - 1) : ~(b[i] = "_" /\ b[i + 1] = "_")

RECURSIVE int_digits(_, _)
int_digits(b, acc) ==
    IF b = <<>> THEN acc
    ELSE IF Head(b) = "_" THEN int_digits(Tail(b), acc)
    ELSE int_digits(Tail(b), 10 * acc + DigitVal(Head(b)))

\* int(s): [ok |-> FALSE] stands for ValueError
int(s) ==
    LET t    == strip(s)
        sign == t # <<>> /\ t[1] \in {"+", "-"}
        b    == IF sign THEN Tail(t) ELSE t
    IN  IF int_literal_ok(b)
        THEN [ok |-> TRUE,
              v  |-> IF sign /\ t[1] = "-" THEN 0 - int_digits(b, 0)
                     ELSE int_digits(b, 0)]
        ELSE [ok |-> FALSE, v |-> 0]

max(a, b) == IF a >= b THEN a ELSE b
min(a, b) == IF a <= b THEN a ELSE b

\* ------------------------------------------------------------- the form
\* a field of request.form: absent, or a text
NoField == [k |-> "absent", s |-> <<>>]
Field(s) == [k |-> "str", s |-> s]

\* request.form.get(name) or default
form_get_or(f, default) ==
    IF f.k = "absent" \/ f.s = <<>> THEN default ELSE f.s

\* keyword = (request.form.get("keyword") or "").strip()
parse_keyword_mut_no_strip(f) == form_get_or(f, <<>>)

parse_keyword(f) == strip(form_get_or(f, <<>>))

\* rows = max(1, min(100, int(rows_raw))), or 10 on ValueError
parse_rows_mut_noclamp(f) ==
    LET r == int(form_get_or(f, <<"1", "0">>))
    IN  IF r.ok THEN max(1, r.v) ELSE 10

parse_rows(f) ==
    LET r == int(form_get_or(f, <<"1", "0">>))
    IN  IF r.ok THEN max(1, min(100, r.v)) ELSE 10

\* ------------------------------------------------------------- raw items
\* JSON null, and a key that is missing from its object
Null == "<null>"
Absent == "<absent>"
\* the placeholders of lines 33, 37 and 47; EmDash stands for the one-character
\* string U+2014
Untitled == "Untitled"
EmDash == "U+2014"
Unknown == <<"U", "n", "k", "n", "o", "w", "n">>

\* A raw item of message.items:
\*   title   [k : absent | null | list, v : sequence of titles (or Null)]
\*   DOI     Absent, Null or the DOI
\*   print, online (published-print, published-online)
\*           [k : absent | null | empty | obj, dp : date-parts]
\*           empty is the object {}, obj an object with at least one key
\*   date-parts [k : absent | null | list, v : sequence of entries]
\*   entry   [k : null | list, v : sequence of years (or Null)]
\*   author  [k : absent | null | list, v : sequence of authors]
\*   an author [given, family], each [k : absent | null | str, s : text]

\* title_list = item.get("title") or []
\* title = title_list[0] if title_list else "Untitled"
title_of(item) ==
    LET title_list == IF item.title.k = "list" THEN item.title.v ELSE <<>>
    IN  IF title_list # <<>> THEN title_list[1] ELSE Untitled

\* doi = item.get("DOI", "")
doi_of(item) == IF item.DOI = Absent THEN "" ELSE item.DOI

EmptyDict == [k |-> "empty", dp |-> [k |-> "absent", v |-> <<>>]]

\* published = item.get("published-print") or item.get("published-online") or {}
\* (None and {} are falsy, any other object is truthy)
published_mut_print_only(item) ==
    IF item.print.k = "obj" THEN item.print ELSE EmptyDict

published_of(item) ==
    IF item.print.k = "obj" THEN item.print
    ELSE IF item.online.k = "obj" THEN item.online
    ELSE EmptyDict

\* date_parts = published.get("date-parts") or [[]]
date_parts_of(published) ==
    IF published.k = "obj" /\ published.dp.k = "list" /\ published.dp.v # <<>>
    THEN published.dp.v
    ELSE <<[k |-> "list", v |-> <<>>]>>

\* year = date_parts[0][0] if date_parts and date_parts[0] else EmDash
year_of(item) ==
    LET date_parts == date_parts_of(published_of(item))
    IN  IF date_parts # <<>> /\ date_parts[1].k = "list" /\ date_parts[1].v # <<>>
        THEN date_parts[1].v[1]
        ELSE EmDash

\* author.get(name, "").strip(); a null name has no strip(): AttributeError
name_part(f) == strip(IF f.k = "str" THEN f.s ELSE <<>>)

\* full_name = " ".join(part for part in [given, family] if part)
full_name(author) ==
    join(<<" ">>, nonempty_parts(<<name_part(author.given), name_part(author.family)>>))

\* authors = item.get("author", []); the loop of lines 41-46; line 47
author_str_of(item) ==
    LET authors == IF item.author.k = "list" THEN item.author.v ELSE <<>>
        author_names ==
            nonempty_parts([i \in 1..Len(authors) |-> full_name(authors[i])])
    IN  IF author_names # <<>> THEN join(<<";", " ">>, author_names) ELSE Unknown

\* the loop body raises: iterating None (author: null) is a TypeError, and
\* None.strip() (given or family: null) an AttributeError
item_raises(item) ==
    \/ item.author.k = "null"
    \/ /\ item.author.k = "list"
       /\ \E i \in 1..Len(item.author.v) :
             \/ item.author.v[i].given.k = "null"
             \/ item.author.v[i].family.k = "null"

\* records.append({...})
record_of(item) ==
    [Title |-> title_of(item), DOI |-> doi_of(item),
     Year |-> year_of(item), Authors |-> author_str_of(item)]

\* the DataFrame: None, or its rows in order (one row per record, columns
\* Title, DOI, Year, Authors; the column dtypes pandas infers are not modelled)
NoneDF == [isNone |-> TRUE, recs |-> <<>>]
DataFrame(recs) == [isNone |-> FALSE, recs |-> recs]
df_empty(df) == df.recs = <<>>

\* the loop of lines 30-54, for items none of which raises
records_mut_reversed(items) ==
    [i \in 1..Len(items) |-> record_of(items[Len(items) + 1 - i])]

records_of(items) ==
    [i \in 1..Len(items) |-> record_of(items[i])]

\* ------------------------------------------------------------- responses
\* flash(message): the message and, for line 82, the status code in it
NoFlash == [msg |-> "", code |-> 0]
FlashKeyword == [msg |-> "Please enter a research topic keyword.", code |-> 0]
FlashApiError(status_code) == [msg |-> "Crossref API error: ", code |-> status_code]
FlashUnreachable ==
    [msg |-> "Unable to reach Crossref API. Please try again later.", code |-> 0]
FlashNoResults == [msg |-> "No results found for that query after 2015.", code |-> 0]
FlashNoDownload == [msg |-> "No search results to download yet.", code |-> 0]

NoCsv == [header |-> <<>>, lines |-> <<>>]

\* what a request was answered with
NoResp ==
    [kind |-> "none", flash |-> NoFlash, results |-> NoneDF, keyword |-> <<>>,
     rows |-> 0, csv |-> NoCsv]
\* redirect(url_for("index")) after a flash
Redirect(flash) == [NoResp EXCEPT !.kind = "redirect", !.flash = flash]
\* render_template("index.html", results=..., keyword=..., rows=...)
Page(flash, results, kw, r) ==
    [NoResp EXCEPT !.kind = "page", !.flash = flash, !.results = results,
                   !.keyword = kw, !.rows = r]
\* send_file(..., mimetype="text/csv", as_attachment=True)
Attachment(csv) == [NoResp EXCEPT !.kind = "csv", !.csv = csv]
\* an exception no handler catches: the framework answers 500
Error500 == [NoResp EXCEPT !.kind = "error500"]

\* a cell of the CSV: None is written as the empty field
csv_cell(v) == IF v = Null THEN "" ELSE v

\* DataFrame.to_csv(csv_buffer, index=False): the header line, then one line
\* per record, in the frame's order
to_csv_mut_no_header(df) ==
    [header |-> <<>>,
     lines  |-> [i \in 1..Len(df.recs) |->
                   <<csv_cell(df.recs[i].Title), csv_cell(df.recs[i].DOI),
                     csv_cell(df.recs[i].Year), df.recs[i].Authors>>]]

to_csv(df) ==
    [header |-> <<"Title", "DOI", "Year", "Authors">>,
     lines  |-> [i \in 1..Len(df.recs) |->
                   <<csv_cell(df.recs[i].Title), csv_cell(df.recs[i].DOI),
                     csv_cell(df.recs[i].Year), df.recs[i].Authors>>]]

\* the cached keyword: None, or a text
NoneStr == [k |-> "None", s |-> <<>>]
Str(s) == [k |-> "str", s |-> s]

\* ------------------------------------------------------------- upstream
\* What requests.get meets: a transport failure (DNS, refused, timeout), or
\* an HTTP response with a status and a body; the body is JSON with
\* message.items, JSON without that path, or not JSON.
TransportFailure == [kind |-> "transport", status |-> 0, body |-> "", items |-> <<>>]
Http(status_code, body, its) ==
    [kind |-> "http", status |-> status_code, body |-> body, items |-> its]

\* response.raise_for_status(): HTTPError for 4xx and 5xx
raises_for_status(status_code) == status_code >= 400 /\ status_code < 600

\* message.items of a JSON body: data.get("message", {}).get("items", [])
items_of(r) == IF r.body = "json" THEN r.items ELSE <<>>

Raise(exc) == [exc |-> exc, df |-> NoneDF]
Return(df) == [exc |-> "", df |-> df]

\* fetch_crossref_results(keyword, rows) meeting upstream outcome r.
\* response.json() on a body that is not JSON raises
\* requests.exceptions.JSONDecodeError, a RequestException, or with an older
\* requests a plain ValueError: json_error_is_request_exception says which.
fetch_crossref_results(r, json_error_is_request_exception) ==
    IF r.kind = "transport" THEN Raise("RequestException")
    ELSE IF raises_for_status(r.status) THEN Raise("HTTPError")
    ELSE IF r.body = "badjson"
         THEN Raise(IF json_error_is_request_exception
                    THEN "RequestException" ELSE "ValueError")
    ELSE IF \E i \in 1..Len(items_of(r)) : item_raises(items_of(r)[i])
         THEN Raise("TypeError")
    ELSE Return(DataFrame(records_of(items_of(r))))

\* ------------------------------------------------------------- state
VARIABLES
    _latest_results_df,  \* the cached DataFrame, or None
    _latest_query,       \* the cached keyword, or None
    pc,                  \* where each worker is in its request
    method,              \* the route and method of the worker's request
    form,                \* request.form: [keyword, rows]
    keyword,             \* index's local keyword
    rows,                \* index's local rows
    results_df,          \* index's local results_df
    items,               \* message.items of the upstream response
    status,              \* status code of the upstream response (0: none)
    calls,               \* upstream GETs issued by the request
    resp                 \* the response under construction, then sent

vars ==
    <<_latest_results_df, _latest_query, pc, method, form, keyword, rows,
      results_df, items, status, calls, resp>>

NoForm == [keyword |-> NoField, rows |-> NoField]

\* a request arrives at an idle worker; index's locals of lines 63-65
receive(p, m, f) ==
    /\ pc[p] \in {"idle", "done"}
    /\ pc' = [pc EXCEPT ![p] = "recv"]
    /\ method' = [method EXCEPT ![p] = m]
    /\ form' = [form EXCEPT ![p] = f]
    /\ keyword' = [keyword EXCEPT ![p] = <<>>]
    /\ rows' = [rows EXCEPT ![p] = 10]
    /\ results_df' = [results_df EXCEPT ![p] = NoneDF]
    /\ items' = [items EXCEPT ![p] = <<>>]
    /\ status' = [status EXCEPT ![p] = 0]
    /\ calls' = [calls EXCEPT ![p] = 0]
    /\ resp' = [resp EXCEPT ![p] = NoResp]
    /\ UNCHANGED <<_latest_results_df, _latest_query>>

\* index, POST, lines 67-77: the form is read, an empty keyword is refused
index_post(p) ==
    /\ pc[p] = "recv"
    /\ method[p] = "POST /"
    /\ keyword' = [keyword EXCEPT ![p] = parse_keyword(form[p].keyword)]
    /\ rows' = [rows EXCEPT ![p] = parse_rows(form[p].rows)]
    /\ IF keyword'[p] = <<>>
       THEN /\ pc' = [pc EXCEPT ![p] = "done"]
            /\ resp' = [resp EXCEPT ![p] = Redirect(FlashKeyword)]
       ELSE /\ pc' = [pc EXCEPT ![p] = "fetch"]
            /\ UNCHANGED resp
    /\ UNCHANGED <<_latest_results_df, _latest_query, method, form, results_df,
                   items, status, calls>>

\* index, lines 79-89: the search, its two handlers and the empty check
index_search(p, r, json_error_is_request_exception) ==
    LET got == fetch_crossref_results(r, json_error_is_request_exception)
    IN  /\ pc[p] = "fetch"
        /\ calls' = [calls EXCEPT ![p] = @ + 1]
        /\ status' = [status EXCEPT ![p] = r.status]
        /\ IF got.exc = "HTTPError"
           THEN /\ pc' = [pc EXCEPT ![p] = "done"]
                /\ resp' = [resp EXCEPT ![p] = Redirect(FlashApiError(r.status))]
                /\ UNCHANGED <<results_df, items>>
           ELSE IF got.exc = "RequestException"
           THEN /\ pc' = [pc EXCEPT ![p] = "done"]
                /\ resp' = [resp EXCEPT ![p] = Redirect(FlashUnreachable)]
                /\ UNCHANGED <<results_df, items>>
           ELSE IF got.exc # ""
           THEN /\ pc' = [pc EXCEPT ![p] = "done"]
                /\ resp' = [resp EXCEPT ![p] = Error500]
                /\ items' = [items EXCEPT ![p] = items_of(r)]
                /\ UNCHANGED results_df
           ELSE /\ results_df' = [results_df EXCEPT ![p] = got.df]
                /\ items' = [items EXCEPT ![p] = items_of(r)]
                /\ IF df_empty(got.df)
                   THEN /\ pc' = [pc EXCEPT ![p] = "render"]
                        /\ resp' = [resp EXCEPT ![p].flash = FlashNoResults]
                   ELSE /\ pc' = [pc EXCEPT ![p] = "store_df"]
                        /\ UNCHANGED resp
        /\ UNCHANGED <<_latest_results_df, _latest_query, method, form, keyword, rows>>

\* index, line 91
index_store_df(p) ==
    /\ pc[p] = "store_df"
    /\ _latest_results_df' = results_df[p]
    /\ pc' = [pc EXCEPT ![p] = "store_query"]
    /\ UNCHANGED <<_latest_query, method, form, keyword, rows, results_df, items,
                   status, calls, resp>>

\* index, line 92
index_store_query(p) ==
    /\ pc[p] = "store_query"
    /\ _latest_query' = Str(keyword[p])
    /\ pc' = [pc EXCEPT ![p] = "render"]
    /\ UNCHANGED <<_latest_results_df, method, form, keyword, rows, results_df,
                   items, status, calls, resp>>

\* index, line 96: the results argument of render_template
index_render_results_mut_caches(p) ==
    /\ \/ pc[p] = "render"
       \/ pc[p] = "recv" /\ method[p] = "GET /"
    /\ resp' = [resp EXCEPT ![p].kind = "rendering",
                            ![p].results = IF ~results_df[p].isNone
                                           THEN results_df[p]
                                           ELSE _latest_results_df]
    /\ _latest_results_df' =
          IF ~results_df[p].isNone THEN results_df[p] ELSE _latest_results_df
    /\ pc' = [pc EXCEPT ![p] = "render_keyword"]
    /\ UNCHANGED <<_latest_query, method, form, keyword, rows,
                   results_df, items, status, calls>>

index_render_results(p) ==
    /\ \/ pc[p] = "render"
       \/ pc[p] = "recv" /\ method[p] = "GET /"
    /\ resp' = [resp EXCEPT ![p].kind = "rendering",
                            ![p].results = IF ~results_df[p].isNone
                                           THEN results_df[p]
                                           ELSE _latest_results_df]
    /\ pc' = [pc EXCEPT ![p] = "render_keyword"]
    /\ UNCHANGED <<_latest_results_df, _latest_query, method, form, keyword, rows,
                   results_df, items, status, calls>>

\* index, lines 97-98: the keyword and rows arguments; the page is sent
index_render_keyword(p) ==
    /\ pc[p] = "render_keyword"
    /\ resp' = [resp EXCEPT ![p] =
                  Page(resp[p].flash, resp[p].results,
                       IF keyword[p] # <<>> THEN keyword[p]
                       ELSE IF _latest_query.k = "None" THEN <<>>
                       ELSE _latest_query.s,
                       rows[p])]
    /\ pc' = [pc EXCEPT ![p] = "done"]
    /\ UNCHANGED <<_latest_results_df, _latest_query, method, form, keyword, rows,
                   results_df, items, status, calls>>

\* download_csv, lines 104-106
download_csv_check_mut_no_check(p) ==
    /\ pc[p] = "recv"
    /\ method[p] = "GET /download"
    /\ pc' = [pc EXCEPT ![p] = "download_send"]
    /\ UNCHANGED <<_latest_results_df, _latest_query, method, form, keyword, rows,
                   results_df, items, status, calls, resp>>

download_csv_check(p) ==
    /\ pc[p] = "recv"
    /\ method[p] = "GET /download"
    /\ IF _latest_results_df.isNone \/ df_empty(_latest_results_df)
       THEN /\ pc' = [pc EXCEPT ![p] = "done"]
            /\ resp' = [resp EXCEPT ![p] = Redirect(FlashNoDownload)]
       ELSE /\ pc' = [pc EXCEPT ![p] = "download_send"]
            /\ UNCHANGED resp
    /\ UNCHANGED <<_latest_results_df, _latest_query, method, form, keyword, rows,
                   results_df, items, status, calls>>

\* download_csv, lines 108-117
download_csv_send(p) ==
    /\ pc[p] = "download_send"
    /\ resp' = [resp EXCEPT ![p] = Attachment(to_csv(_latest_results_df))]
    /\ pc' = [pc EXCEPT ![p] = "done"]
    /\ UNCHANGED <<_latest_results_df, _latest_query, method, form, keyword, rows,
                   results_df, items, status, calls>>

\* ------------------------------------------------------------- inputs
KeywordChars == {" ", "a"}
KeywordFields ==
    {NoField} \cup {Field(s) : s \in SeqsUpTo(KeywordChars, MaxKeywordLen)}

\* rows fields of the requests of Spec: absent, "0", "a", "7", "500"
RowsSampleFields ==
    {NoField, Field(<<"0">>), Field(<<"a">>), Field(<<"7">>), Field(<<"5", "0", "0">>)}

Forms == [keyword : KeywordFields, rows : RowsSampleFields]

Requests ==
    {<<"GET /", NoForm>>, <<"GET /download", NoForm>>}
        \cup {<<"POST /", f>> : f \in Forms}

NoPub == [k |-> "absent", dp |-> [k |-> "absent", v |-> <<>>]]
PubYear(y) ==
    [k |-> "obj", dp |-> [k |-> "list", v |-> <<[k |-> "list", v |-> <<y>>]>>]]
NoName == [k |-> "absent", s |-> <<>>]
Name(s) == [k |-> "str", s |-> s]

\* three upstream items: a full one, a bare one, one whose author is null
ItemFull ==
    [title |-> [k |-> "list", v |-> <<"T1">>], DOI |-> "10.1/a",
     print |-> PubYear("2020"), online |-> NoPub,
     author |-> [k |-> "list",
                 v |-> <<[given |-> Name(<<"A">>), family |-> Name(<<"L">>)]>>]]
ItemBare ==
    [title |-> [k |-> "absent", v |-> <<>>], DOI |-> Absent,
     print |-> NoPub, online |-> NoPub, author |-> [k |-> "absent", v |-> <<>>]]
ItemNullAuthor == [ItemFull EXCEPT !.author = [k |-> "null", v |-> <<>>]]

ItemSeqs == SeqsUpTo({ItemFull, ItemBare, ItemNullAuthor}, MaxItems)

\* final status codes: success, a 3xx that is not followed, two errors
StatusCodes == {200, 304, 429, 500}

Responses ==
    {TransportFailure}
        \cup {Http(c, "", <<>>) : c \in {c \in StatusCodes : raises_for_status(c)}}
        \cup {Http(c, b, <<>>) :
                c \in {c \in StatusCodes : ~raises_for_status(c)},
                b \in {"badjson", "nomessage"}}
        \cup {Http(c, "json", its) :
                c \in {c \in StatusCodes : ~raises_for_status(c)}, its \in ItemSeqs}

\* ------------------------------------------------------------- Spec
\* the process after start: the cache is empty (lines 13-14), workers idle
Init ==
    /\ _latest_results_df = NoneDF
    /\ _latest_query = NoneStr
    /\ pc = [p \in Procs |-> "idle"]
    /\ method = [p \in Procs |-> ""]
    /\ form = [p \in Procs |-> NoForm]
    /\ keyword = [p \in Procs |-> <<>>]
    /\ rows = [p \in Procs |-> 10]
    /\ results_df = [p \in Procs |-> NoneDF]
    /\ items = [p \in Procs |-> <<>>]
    /\ status = [p \in Procs |-> 0]
    /\ calls = [p \in Procs |-> 0]
    /\ resp = [p \in Procs |-> NoResp]

\* Spec: the requests are handled one after the other, by worker 1, each
\* with any form, and any upstream outcome for its search
Workers == {1}

Next ==
    \E p \in Workers :
        \/ \E q \in Requests : receive(p, q[1], q[2])
        \/ index_post(p)
        \/ \E r \in Responses, je \in BOOLEAN : index_search(p, r, je)
        \/ index_store_df(p)
        \/ index_store_query(p)
        \/ index_render_results(p)
        \/ index_render_keyword(p)
        \/ download_csv_check(p)
        \/ download_csv_send(p)

Spec == Init /\ [][Next]_vars

\* ------------------------------------------------------------- SpecConc
\* The threaded server: NumProcs workers run index and download_csv at once,
\* interleaved between any two accesses of the two globals.
ConcRequests ==
    {<<"GET /", NoForm>>, <<"GET /download", NoForm>>,
     <<"POST /", [keyword |-> Field(<<"a">>), rows |-> NoField]>>,
     <<"POST /", [keyword |-> Field(<<"a", "a">>), rows |-> NoField]>>}

ConcResponses ==
    {TransportFailure, Http(200, "json", <<>>),
     Http(200, "json", <<ItemFull>>), Http(200, "json", <<ItemBare>>)}

NextConc ==
    \E p \in Procs :
        \/ \E q \in ConcRequests : receive(p, q[1], q[2])
        \/ index_post(p)
        \/ \E r \in ConcResponses : index_search(p, r, TRUE)
        \/ index_store_df(p)
        \/ index_store_query(p)
        \/ index_render_results(p)
        \/ index_render_keyword(p)
        \/ download_csv_check(p)
        \/ download_csv_send(p)

SpecConc == Init /\ [][NextConc]_vars

\* ------------------------------------------------------------- SpecRows
\* index's reading of the form, over every rows field up to MaxRowsLen
RowsChars == {"0", "1", "5", "-", "+", "_", " ", "a"}
RowsFields == {NoField} \cup {Field(s) : s \in SeqsUpTo(RowsChars, MaxRowsLen)}

\* worker 1 has received a POST
Received(f) ==
    /\ _latest_results_df = NoneDF
    /\ _latest_query = NoneStr
    /\ pc = [p \in Procs |-> IF p = 1 THEN "recv" ELSE "idle"]
    /\ method = [p \in Procs |-> IF p = 1 THEN "POST /" ELSE ""]
    /\ form = [p \in Procs |-> IF p = 1 THEN f ELSE NoForm]
    /\ keyword = [p \in Procs |-> <<>>]
    /\ rows = [p \in Procs |-> 10]
    /\ results_df = [p \in Procs |-> NoneDF]
    /\ items = [p \in Procs |-> <<>>]
    /\ status = [p \in Procs |-> 0]
    /\ calls = [p \in Procs |-> 0]
    /\ resp = [p \in Procs |-> NoResp]

InitRows ==
    \E kw \in {NoField, Field(<<"a">>)}, rf \in RowsFields :
        Received([keyword |-> kw, rows |-> rf])

NextRows == \E p \in Workers : index_post(p)

SpecRows == InitRows /\ [][NextRows]_vars

\* ------------------------------------------------------------- SpecNorm
\* the normalizer over raw items whose fields are, independently, absent,
\* null, empty or populated
TitleFields ==
    {[k |-> "absent", v |-> <<>>], [k |-> "null", v |-> <<>>],
     [k |-> "list", v |-> <<>>], [k |-> "list", v |-> <<"T1">>],
     [k |-> "list", v |-> <<Null>>]}

DOIFields == {Absent, Null, "", "10.1/a"}

\* date-parts entries: null, [], [y], [null]
Entries(y) ==
    {[k |-> "null", v |-> <<>>], [k |-> "list", v |-> <<>>],
     [k |-> "list", v |-> <<y>>], [k |-> "list", v |-> <<Null>>]}

\* date-parts of up to n entries drawn from E
DateParts(E, n) ==
    {[k |-> "absent", v |-> <<>>], [k |-> "null", v |-> <<>>]}
        \cup {[k |-> "list", v |-> v] : v \in SeqsUpTo(E, n)}

\* a published field: absent, null, {}, or an object with date-parts
Pubs(E, n) ==
    {[k |-> "absent", dp |-> [k |-> "absent", v |-> <<>>]],
     [k |-> "null", dp |-> [k |-> "absent", v |-> <<>>]], EmptyDict}
        \cup {[k |-> "obj", dp |-> dp] : dp \in DateParts(E, n)}

NameFields(c) ==
    {NoName, [k |-> "null", s |-> <<>>], Name(<<>>), Name(<<" ">>), Name(<<" ", c>>)}

AuthorFields ==
    {[k |-> "absent", v |-> <<>>], [k |-> "null", v |-> <<>>]}
        \cup {[k |-> "list", v |-> v] :
                v \in SeqsUpTo([given : NameFields("A"), family : NameFields("L")],
                               MaxAuthors)}

NormItems ==
    [title : TitleFields, DOI : DOIFields, print : Pubs(Entries("2020"), 1),
     online : Pubs(Entries("2021"), 1), author : AuthorFields]

\* worker 1 is about to search for "a"
InitNorm ==
    /\ _latest_results_df = NoneDF
    /\ _latest_query = NoneStr
    /\ pc = [p \in Procs |-> IF p = 1 THEN "fetch" ELSE "idle"]
    /\ method = [p \in Procs |-> IF p = 1 THEN "POST /" ELSE ""]
    /\ form = [p \in Procs |->
                 IF p = 1 THEN [keyword |-> Field(<<"a">>), rows |-> NoField]
                 ELSE NoForm]
    /\ keyword = [p \in Procs |-> IF p = 1 THEN <<"a">> ELSE <<>>]
    /\ rows = [p \in Procs |-> 10]
    /\ results_df = [p \in Procs |-> NoneDF]
    /\ items = [p \in Procs |-> <<>>]
    /\ status = [p \in Procs |-> 0]
    /\ calls = [p \in Procs |-> 0]
    /\ resp = [p \in Procs |-> NoResp]

NextNorm ==
    \E p \in Workers :
        /\ pc[p] = "fetch"
        /\ \E it \in NormItems : index_search(p, Http(200, "json", <<it>>), TRUE)

SpecNorm == InitNorm /\ [][NextNorm]_vars

\* ------------------------------------------------------------- SpecYear
\* the normalizer over every published-print and published-online whose
\* date-parts hold up to MaxDateParts entries: null, [] or [y]
YearEntries(y) ==
    {[k |-> "null", v |-> <<>>], [k |-> "list", v |-> <<>>],
     [k |-> "list", v |-> <<y>>]}

YearItems ==
    {[ItemFull EXCEPT !.print = pp, !.online = po] :
        pp \in Pubs(YearEntries("2020"), MaxDateParts),
        po \in Pubs(YearEntries("2021"), MaxDateParts)}

NextYear ==
    \E p \in Workers :
        /\ pc[p] = "fetch"
        /\ \E it \in YearItems : index_search(p, Http(200, "json", <<it>>), TRUE)

SpecYear == InitNorm /\ [][NextYear]_vars

\* ------------------------------------------------------------- claims
Cache == <<_latest_results_df, _latest_query>>

Done(p) == pc[p] = "done"

\* C1: the cache (results and keyword) changes only in a step of a POST /
\* whose search returned a non-empty ResultSet, and only to that ResultSet and
\* that keyword; every other step of every request leaves it as it was.
C1_CacheChangesOnlyOnNonEmptySearch ==
    [][Cache' # Cache =>
         \E p \in Procs :
            /\ method[p] = "POST /"
            /\ pc[p] \in {"store_df", "store_query"}
            /\ calls[p] = 1
            /\ ~raises_for_status(status[p])
            /\ ~results_df[p].isNone
            /\ Len(results_df[p].recs) >= 1
            /\ Len(results_df[p].recs) = Len(items[p])
            /\ keyword[p] # <<>>
            /\ _latest_results_df' \in {_latest_results_df, results_df[p]}
            /\ _latest_query' \in {_latest_query, Str(keyword[p])}]_vars

\* a search answered 429 has ended in its redirect and the cache still holds
\* the earlier results
C1_Witness ==
    \E p \in Procs :
        /\ Done(p)
        /\ resp[p] = Redirect(FlashApiError(429))
        /\ ~_latest_results_df.isNone
        /\ _latest_query # NoneStr

\* C2: a POST / whose search returned zero items, with results cached, is
\* answered with the page carrying the "no results" message and the cached
\* results
C2_EmptySearchShowsCachedResults ==
    \A p \in Procs :
        (/\ Done(p)
         /\ method[p] = "POST /"
         /\ resp[p].flash = FlashNoResults
         /\ ~_latest_results_df.isNone)
            => /\ resp[p].kind = "page"
               /\ resp[p].results = _latest_results_df

\* C3: once a POST / whose search returned n >= 1 items is answered, the cache
\* holds the n normalized records in the order of the items; and a download
\* answered with the CSV carries the header Title,DOI,Year,Authors and one
\* line per cached record, in the cache's order.
C3_StoredInOrderAndDownloaded ==
    \A p \in Procs :
        /\ (Done(p) /\ method[p] = "POST /" /\ resp[p].kind = "page"
                /\ items[p] # <<>>)
              => /\ ~_latest_results_df.isNone
                 /\ Len(_latest_results_df.recs) = Len(items[p])
                 /\ \A i \in 1..Len(items[p]) :
                       _latest_results_df.recs[i] = record_of(items[p][i])
                 /\ resp[p].results = _latest_results_df
        /\ (Done(p) /\ method[p] = "GET /download" /\ resp[p].kind = "csv")
              => /\ resp[p].csv.header = <<"Title", "DOI", "Year", "Authors">>
                 /\ Len(resp[p].csv.lines) = Len(_latest_results_df.recs)
                 /\ \A i \in 1..Len(_latest_results_df.recs) :
                       resp[p].csv.lines[i] =
                           <<csv_cell(_latest_results_df.recs[i].Title),
                             csv_cell(_latest_results_df.recs[i].DOI),
                             csv_cell(_latest_results_df.recs[i].Year),
                             _latest_results_df.recs[i].Authors>>

\* a download of two cached records that differ, in the cache's order
C3_Witness ==
    \E p \in Procs :
        /\ Done(p)
        /\ method[p] = "GET /download"
        /\ resp[p].kind = "csv"
        /\ Len(resp[p].csv.lines) = 2
        /\ _latest_results_df.recs = <<record_of(ItemBare), record_of(ItemFull)>>
        /\ resp[p].csv.lines[1][1] = Untitled
        /\ resp[p].csv.lines[2][1] = "T1"

\* C4: a download is answered with the CSV exactly when the cache holds at
\* least one record, and otherwise with the redirect carrying the "nothing to
\* download" message; while the cache has never been filled no download is
\* answered with a CSV.
C4_DownloadIffCached ==
    /\ \A p \in Procs :
          (Done(p) /\ method[p] = "GET /download")
             => /\ resp[p].kind = "csv"
                    <=> (~_latest_results_df.isNone /\ Len(_latest_results_df.recs) >= 1)
                /\ resp[p].kind # "csv" => resp[p] = Redirect(FlashNoDownload)
    /\ _latest_results_df.isNone => \A p \in Procs : resp[p].kind # "csv"

\* a download refused while nothing is cached
C4_Witness ==
    \E p \in Procs :
        /\ Done(p)
        /\ method[p] = "GET /download"
        /\ resp[p] = Redirect(FlashNoDownload)
        /\ _latest_results_df.isNone

\* the keyword field is absent, empty or only whitespace
IsBlank(f) == f.k = "absent" \/ \A i \in 1..Len(f.s) : f.s[i] \in Whitespace

\* C5: a POST / whose keyword field is absent, empty or only whitespace never
\* reaches the search (no upstream GET is issued for it), whatever its rows
\* field, and is answered with the redirect carrying the validation message.
C5_BlankKeywordNeverSearches ==
    \A p \in Procs :
        (method[p] = "POST /" /\ IsBlank(form[p].keyword))
            => /\ calls[p] = 0
               /\ pc[p] \in {"recv", "done"}
               /\ Done(p) => resp[p] = Redirect(FlashKeyword)

\* a whitespace keyword sent with rows "500" was refused
C5_Witness ==
    \E p \in Procs :
        /\ Done(p)
        /\ method[p] = "POST /"
        /\ form[p] = [keyword |-> Field(<<" ", " ">>), rows |-> Field(<<"5", "0", "0">>)]
        /\ resp[p] = Redirect(FlashKeyword)
        /\ calls[p] = 0

\* C6: a POST / whose search met an upstream status outside 2xx is answered
\* with the redirect whose message names the status code, and one that met a
\* transport failure or timeout with the redirect carrying the unreachable
\* message; in both cases one upstream GET was issued and no page is rendered.
C6_FailureRedirects ==
    \A p \in Procs :
        (/\ Done(p)
         /\ method[p] = "POST /"
         /\ calls[p] >= 1
         /\ ~(status[p] \in 200..299))
            => /\ calls[p] = 1
               /\ resp[p].kind = "redirect"
               /\ status[p] = 0 => resp[p] = Redirect(FlashUnreachable)
               /\ status[p] # 0 => resp[p] = Redirect(FlashApiError(status[p]))

\* C7: the rows value handed to the search is 10 when the rows field is
\* absent, empty or no integer literal, and otherwise the integer clamped to
\* 1..100; "0" gives 1, "500" gives 100, "a" gives 10.
C7_RowsClamped ==
    \A p \in Procs :
        pc[p] = "fetch" =>
            LET f == form[p].rows
                n == int(f.s)
            IN  /\ rows[p] \in 1..100
                /\ (f.k = "absent" \/ f.s = <<>> \/ ~n.ok) => rows[p] = 10
                /\ (f.k = "str" /\ f.s # <<>> /\ n.ok) =>
                      rows[p] = (IF n.v < 1 THEN 1 ELSE IF n.v > 100 THEN 100 ELSE n.v)
                /\ f = Field(<<"0">>) => rows[p] = 1
                /\ f = Field(<<"5", "0", "0">>) => rows[p] = 100
                /\ f = Field(<<"-", "5">>) => rows[p] = 1
                /\ f = Field(<<"5", "0">>) => rows[p] = 50
                /\ f = Field(<<"a">>) => rows[p] = 10
                /\ f = Field(<<" ">>) => rows[p] = 10

\* rows "500" reached the search as 100
C7_Witness ==
    \E p \in Procs :
        /\ pc[p] = "fetch"
        /\ form[p].rows = Field(<<"5", "0", "0">>)
        /\ rows[p] = 100

\* C8: normalizing an item never fails, whatever is absent, null, empty or
\* populated in it, and the record's four fields are all non-null
C8_NormalizerTotal ==
    \A p \in Procs :
        /\ Done(p) => resp[p].kind # "error500"
        /\ ~results_df[p].isNone =>
              \A i \in 1..Len(results_df[p].recs) :
                 /\ results_df[p].recs[i].Title # Null
                 /\ results_df[p].recs[i].DOI # Null
                 /\ results_df[p].recs[i].Year # Null

\* the date a published field supplies: the first entry of its date-parts
\* when that entry is populated, and none otherwise
DateOf(pub) ==
    IF /\ pub.k = "obj"
       /\ pub.dp.k = "list"
       /\ pub.dp.v # <<>>
       /\ pub.dp.v[1].k = "list"
       /\ pub.dp.v[1].v # <<>>
    THEN pub.dp.v[1].v
    ELSE <<>>

\* C9 as claimed: Year is the first component of the date of published-print,
\* or of published-online when published-print supplies no date, and the
\* placeholder only when neither supplies one (an item whose published-print
\* has empty date-parts and whose published-online has a year gets that year)
C9_YearFallsBackWhenPrintHasNoDate ==
    \A p \in Procs :
        pc[p] = "store_df" =>
            LET it == items[p][1]
                y  == results_df[p].recs[1].Year
            IN  IF DateOf(it.print) # <<>> THEN y = DateOf(it.print)[1]
                ELSE IF DateOf(it.online) # <<>> THEN y = DateOf(it.online)[1]
                ELSE y = EmDash

\* C9 as the code has it: the field is published-print when that is a
\* non-empty object, else published-online when that is one; Year is the first
\* component of the first date-parts entry of that field, and the placeholder
\* when the field is missing, its date-parts are missing, null or empty, or
\* their first entry is null or empty, whatever the other field or the later
\* entries hold
C9_YearFromFirstEntryOfChosenField ==
    \A p \in Procs :
        pc[p] = "store_df" =>
            LET it  == items[p][1]
                y   == results_df[p].recs[1].Year
                sel == IF it.print.k = "obj" THEN it.print ELSE it.online
                has == /\ sel.k = "obj"
                       /\ sel.dp.k = "list"
                       /\ Len(sel.dp.v) >= 1
                       /\ sel.dp.v[1].k = "list"
                       /\ Len(sel.dp.v[1].v) >= 1
            IN  /\ has => y = sel.dp.v[1].v[1]
                /\ ~has => y = EmDash
                /\ (it.print.k \in {"absent", "null", "empty"}
                        /\ it.online = PubYear("2021")) => y = "2021"

\* published-print is an object with empty date-parts, published-online has
\* the year 2021, and the Year is the placeholder
C9_Witness ==
    \E p \in Procs :
        /\ pc[p] = "store_df"
        /\ items[p][1].print = [k |-> "obj", dp |-> [k |-> "list", v |-> <<>>]]
        /\ items[p][1].online = PubYear("2021")
        /\ results_df[p].recs[1].Year = EmDash

\* every worker has finished a POST / that stored its results
AllStored ==
    \A p \in Procs :
        /\ Done(p)
        /\ method[p] = "POST /"
        /\ resp[p].kind = "page"
        /\ ~results_df[p].isNone
        /\ ~df_empty(results_df[p])

\* C10: once concurrent POST / requests that each returned results have all
\* finished, the cached results and the cached keyword are those of one and
\* the same request
C10_CachePairConsistent ==
    AllStored =>
        \E p \in Procs :
            /\ _latest_results_df = results_df[p]
            /\ _latest_query = Str(keyword[p])

====
